---- MODULE Spec2Model ----
(***************************************************************************)
(* The TF-IDF recommender of app/services/recommender.py: the lazily       *)
(* loaded process-wide index (_vectorizer, _df, _matrix, _text_col), the   *)
(* data directory it is loaded from (CSV files and the two pickles), and   *)
(* the request threads that call ensure_models_loaded() and                *)
(* recommend_topk() concurrently.                                          *)
(*                                                                         *)
(* Representation.  A cell of a table is a record [kind, toks]: kind is    *)
(* "nan" (a null), "str" or "int"; toks is the token sequence of the       *)
(* cell's string form.  A text is therefore a sequence of lower-case       *)
(* tokens.  Python's None is the empty sequence <<>> and a global that is  *)
(* set is a one-element sequence holding its value.  Row positions are     *)
(* 1-based here and 0-based in the source.                                 *)
(*                                                                         *)
(* scikit-learn is not part of the repository.  TfidfVectorizer is         *)
(* modelled by its contract: the vocabulary is the set of non-stop-word    *)
(* tokens of the fitted texts, in sorted order; a row holds tf * idf per   *)
(* vocabulary term; idf falls with document frequency.  Weights are        *)
(* integers in units of 10^-7 (IdfWeight stands in for ln((1+n)/(1+df))+1, *)
(* and rows are not L2-normalised).  linear_kernel is the dot product.     *)
(* pandas is not part of it either: is_string_dtype is the pandas 2 rule   *)
(* (an object column all of whose values are strings).                     *)
(*                                                                         *)
(* Granularity.  Each assignment to a module global is a step of its own,  *)
(* so is each read of one by recommend_topk; work on locals is merged into *)
(* the step that follows it.  The test of line 77 and each joblib.dump are *)
(* single steps (a pickle is never seen half written).  No step removes a  *)
(* file; the CSV files do not change while the process runs.               *)
(*                                                                         *)
(* The caller layer of app/routes.py (what text /recommend and             *)
(* /api/recommend pass to recommend_topk, and the stored preference topics *)
(* that /profile writes) is a machine of its own, RouteSpec, over the      *)
(* variables preference and http; Spec leaves those two unchanged.         *)
(***************************************************************************)
EXTENDS Integers, Sequences, FiniteSets, TLC

\* ---------------------------------------------------------------- bounds
MaxRows == 2
MaxK == 3

\* ------------------------------------------------------------ vocabulary
\* Every token of the model, in sorted (lexicographic) order.
TermOrder == <<"are", "cats", "dogs", "fish", "nan", "pets", "the">>
\* The stop words among them (stop_words="english").
StopWords == {"are", "the"}

T1 == <<"cats", "are", "pets">>
T2 == <<"dogs", "are", "pets">>
Queries == {<<"pets">>, <<"dogs", "fish">>}

NaN == [kind |-> "nan", toks |-> <<>>]
StrCell(toks) == [kind |-> "str", toks |-> toks]
IntCell(d) == [kind |-> "int", toks |-> <<d>>]

Range(s) == {s[i] : i \in DOMAIN s}

\* Series.astype(str): a null becomes the string "nan".
AsStr(cell) == IF cell.kind = "nan" THEN <<"nan">> ELSE cell.toks

\* -------------------------------------------------------------- tables
\* pd.read_csv: the parsed table with the dtype it infers per column.
InferDtype(cells) ==
    IF \E c \in cells : c.kind = "str" THEN "object"
    ELSE IF cells # {} /\ \A c \in cells : c.kind = "int" THEN "int64"
    ELSE "float64"

read_csv(file) ==
    [columns |-> file.columns,
     dtype |-> [c \in Range(file.columns) |->
                  InferDtype({file.rows[i][c] : i \in DOMAIN file.rows})],
     rows |-> file.rows]

\* pd.api.types.is_string_dtype(df[c]): an object column all of whose values
\* are strings (an empty object column counts as one).
is_string_dtype(df, c) ==
    /\ df.dtype[c] = "object"
    /\ \A i \in DOMAIN df.rows : df.rows[i][c].kind = "str"

KeyError == "KeyError"
candidates == <<"text", "content", "description", "clean_text", "title", "review">>

FirstIn(seq, S) ==
    LET hits == {i \in DOMAIN seq : seq[i] \in S}
    IN  IF hits = {} THEN KeyError
        ELSE seq[CHOOSE i \in hits : \A j \in hits : i <= j]

_detect_text_column(df) ==
    LET byName == FirstIn(candidates, Range(df.columns))
    IN  IF byName # KeyError THEN byName
        ELSE FirstIn(df.columns,
                     {c \in Range(df.columns) : is_string_dtype(df, c)})

\* df.dropna(subset=[col]).reset_index(drop=True)
dropna(df, col) ==
    [df EXCEPT !.rows = SelectSeq(df.rows, LAMBDA r : r[col].kind # "nan")]

\* df[col].astype(str): the texts handed to the vectorizer.
TextsOf(df, col) == [i \in DOMAIN df.rows |-> AsStr(df.rows[i][col])]

\* ---------------------------------------------------------- vectorizer
Count(tok, text) == Cardinality({i \in DOMAIN text : text[i] = tok})

\* Stand-in for sklearn's smoothed idf, ln((1 + n) / (1 + df)) + 1, in units
\* of 10^-7: positive, and smaller for a term found in more documents.
IdfScale == 7
IdfWeight(n, dfreq) == ((1 + n) * IdfScale) \div (1 + dfreq) + IdfScale

ValueError == "ValueError"

\* Fit with a seeded fault: an empty vocabulary is accepted.
Fit_accepts_empty(texts) == <<[terms |-> <<>>, idf |-> <<>>]>>

\* TfidfVectorizer(stop_words="english").fit(texts): <<>> when the vocabulary
\* is empty (fit raises ValueError), else <<the fitted vectorizer>>.
Fit(texts) ==
    LET n == Len(texts)
        vocab == {t \in Range(TermOrder) :
                    t \notin StopWords /\ \E i \in DOMAIN texts : Count(t, texts[i]) > 0}
        terms == SelectSeq(TermOrder, LAMBDA t : t \in vocab)
        docf(t) == Cardinality({i \in DOMAIN texts : Count(t, texts[i]) > 0})
    IN  IF vocab = {} THEN <<>>
        ELSE <<[terms |-> terms,
                idf |-> [j \in DOMAIN terms |-> IdfWeight(n, docf(terms[j]))]]>>

\* vec.transform([text])[0]: out-of-vocabulary tokens contribute nothing.
TransformOne(vec, text) ==
    [j \in DOMAIN vec.terms |-> Count(vec.terms[j], text) * vec.idf[j]]

\* vec.transform(texts): one row per text, in order.
Transform(vec, texts) == [i \in DOMAIN texts |-> TransformOne(vec, texts[i])]

RECURSIVE Dot(_, _, _)
Dot(a, b, j) == IF j = 0 THEN 0 ELSE a[j] * b[j] + Dot(a, b, j - 1)

\* linear_kernel(q_vec, matrix).ravel(): defined when the widths agree.
linear_kernel(q, mat) == [i \in DOMAIN mat |-> Dot(q, mat[i], Len(q))]

WidthsAgree(q, mat) == \A i \in DOMAIN mat : Len(mat[i]) = Len(q)

\* ------------------------------------------------------- recommend_topk
\* round(score, 6) on a score in units of 10^-7: to the nearest multiple of
\* 10, a tie going to the even one.
Round6(x) ==
    LET q == x \div 10
        r == x % 10
    IN  IF r < 5 THEN 10 * q
        ELSE IF r > 5 THEN 10 * (q + 1)
        ELSE IF q % 2 = 0 THEN 10 * q ELSE 10 * (q + 1)

\* sims.argsort(): every ascending order of the row positions; the default
\* sort is not stable, so equal scores may come out in either order.
Argsorts(sims) ==
    LET n == Len(sims)
    IN  {p \in [1..n -> 1..n] :
           /\ \A i, j \in 1..n : i # j => p[i] # p[j]
           /\ \A i \in 1..n : i < n => sims[p[i]] <= sims[p[i + 1]]}

Min(a, b) == IF a <= b THEN a ELSE b
Max(a, b) == IF a >= b THEN a ELSE b

\* seq[start:] as Python slices: a negative start counts from the end and is
\* clamped to the sequence.
PySliceFrom(seq, start) ==
    LET lo == IF start < 0 THEN Max(Len(seq) + start, 0) ELSE Min(start, Len(seq))
    IN  SubSeq(seq, lo + 1, Len(seq))

Reverse(seq) == [i \in DOMAIN seq |-> seq[Len(seq) + 1 - i]]

\* top_idx with a seeded fault: the [::-1] is left out.
top_idx_ascending(sorted, k) == PySliceFrom(sorted, 0 - k)

\* sims.argsort()[-k:][::-1] for one argsort result.
top_idx(sorted, k) == Reverse(PySliceFrom(sorted, 0 - k))

extras == {"title", "id", "label", "category"}

\* str(row.get(text_col, "")): text_col is <<>> for None.
RowText(row, text_col) ==
    IF text_col = <<>> THEN <<>>
    ELSE IF text_col[1] \notin DOMAIN row THEN <<>>
    ELSE AsStr(row[text_col[1]])

\* The loop of recommend_topk over top_idx; doc is the row position the
\* record was read from (not a key of the source's dict).
ResultItems(df, text_col, sims, top) ==
    [i \in DOMAIN top |->
       LET row == df.rows[top[i]]
       IN  [rank |-> i,
            score |-> Round6(sims[top[i]]),
            text |-> RowText(row, text_col),
            doc |-> top[i],
            extra |-> [c \in extras \cap Range(df.columns) |-> row[c]]]]

\* ------------------------------------------------------ data directory
VECT_PATH == "tfidf_vectorizer.pkl"
DATA_PATH == "cleaned_dataset.pkl"
COMMON_CSV_NAMES == <<"data.csv", "cleaned_dataset.csv", "dataset.csv", "items.csv">>
\* The CSV file names of the model in the order sorted() gives them.
CsvNameOrder == <<"a.csv", "b.csv", "data.csv", "items.csv", "zoo.csv">>

FileNotFoundError == "FileNotFoundError"

\* _find_csv_path with a seeded fault: no fallback to any other *.csv.
_find_csv_path_common_only(names) ==
    LET common == FirstIn(COMMON_CSV_NAMES, names)
    IN  IF common # KeyError THEN common ELSE FileNotFoundError

\* _find_csv_path over the names present in DATA_DIR.
_find_csv_path(names) ==
    LET common == FirstIn(COMMON_CSV_NAMES, names)
        csvs == SelectSeq(CsvNameOrder, LAMBDA n : n \in names)
    IN  IF common # KeyError THEN common
        ELSE IF csvs # <<>> THEN csvs[1]
        ELSE FileNotFoundError

\* The rows a CSV of the model is made of: one cell per column name.
RowKinds ==
    {[id |-> IntCell("1"), title |-> StrCell(T2), text |-> StrCell(T1), notes |-> StrCell(T1)],
     [id |-> IntCell("2"), title |-> NaN, text |-> StrCell(T2), notes |-> StrCell(T2)],
     [id |-> IntCell("3"), title |-> StrCell(T1), text |-> NaN, notes |-> NaN]}

MkFile(schema, kinds) ==
    [columns |-> schema,
     rows |-> [i \in DOMAIN kinds |-> [c \in Range(schema) |-> kinds[i][c]]]]

RowSeqs == UNION {[1..n -> RowKinds] : n \in 0..MaxRows}
R1 == CHOOSE r \in RowKinds : r.id = IntCell("1")
R2 == CHOOSE r \in RowKinds : r.id = IntCell("2")
R3 == CHOOSE r \in RowKinds : r.id = IntCell("3")

\* The CSV contents of the model.  With columns title and text the text
\* column is found by name and the rows are any of RowKinds; with id and
\* notes it is found by dtype; with id alone there is none.
CsvFiles ==
    {MkFile(<<"title", "text">>, ks) : ks \in RowSeqs}
    \cup {MkFile(<<"id", "notes">>, ks) : ks \in {<<R1, R2>>, <<R1, R3>>}}
    \cup {MkFile(<<"id">>, <<R1>>)}

OneDoc == MkFile(<<"title", "text">>, <<R2>>)
NoText == MkFile(<<"id">>, <<R1>>)

\* The directory's CSV files: none, data.csv with any content, or two files
\* of which _find_csv_path has to pick one.
CsvDirs ==
    {<<>>}
    \cup {("data.csv" :> f) : f \in CsvFiles}
    \cup {("zoo.csv" :> OneDoc) @@ ("items.csv" :> NoText),
          ("b.csv" :> NoText) @@ ("a.csv" :> OneDoc)}

\* Pickles put into the directory by hand ("or provide PKLs"): a vectorizer
\* fitted elsewhere, a one-document table, a table without a text column.
ProvidedVect == <<[val |-> Fit(<<T2>>)[1], built |-> <<>>]>>
ProvidedData(file) == <<[val |-> read_csv(file), built |-> <<>>]>>
ProvidedCaches ==
    {<<ProvidedVect, <<>>>>,
     <<<<>>, ProvidedData(OneDoc)>>,
     <<ProvidedVect, ProvidedData(OneDoc)>>,
     <<ProvidedVect, ProvidedData(NoText)>>}

\* The directories a process may start in: any of CsvDirs with no pickle,
\* or provided pickles beside no CSV, a two-document CSV or an unusable one.
StartDirs ==
    {[csv |-> d, vect |-> <<>>, data |-> <<>>] : d \in CsvDirs}
    \cup {[csv |-> d, vect |-> c[1], data |-> c[2]] :
            d \in {<<>>,
                   "data.csv" :> MkFile(<<"title", "text">>, <<R1, R2>>),
                   "data.csv" :> NoText},
            c \in ProvidedCaches}

\* -------------------------------------------------------------- state
\* Two request threads.  A serves recommend_topk requests and B calls
\* ensure_models_loaded() alone: both load, and a query only reads, so a
\* second querying thread would add no behaviour of the globals.
Threads == {"A", "B"}
Ops(t) == IF t = "A" THEN {"recommend"} ELSE {"ensure"}
Ks == (0 - 1)..MaxK

VARIABLES
    _vectorizer, _df, _matrix, _text_col,   \* the module globals
    vect_file, data_file,                   \* VECT_PATH, DATA_PATH: <<>> when absent
    csv_dir,                                \* the *.csv files of DATA_DIR
    pc, loc,                                \* per thread: position and locals
    restarted,                              \* whether the process was started again
    preference,                             \* the user's UserPreference row: <<>> when none
    http                                    \* the route handler's request and outcome

globals == <<_vectorizer, _df, _matrix, _text_col>>
disk == <<vect_file, data_file, csv_dir>>
web == <<preference, http>>
vars == <<_vectorizer, _df, _matrix, _text_col, vect_file, data_file, csv_dir,
          pc, loc, restarted, preference, http>>

\* A thread's locals between calls.  op is the function called; dumped what
\* became of the cache writes; ensured how the call's ensure_models_loaded
\* returned: "resident" at line 75, "cache" after line 82, "csv" after line
\* 84, "" while it has not (or when it raised).
Blank ==
    [op |-> "", dumped |-> "", ensured |-> "", err |-> "",
     df |-> <<>>, vec |-> <<>>, mat |-> <<>>, col |-> <<>>,
     q |-> <<>>, q_vec |-> <<>>, k |-> 0, sims |-> <<>>, top |-> <<>>,
     ndocs |-> 0, results |-> <<>>]

\* What a route handler has made of its request: the route, how it ended
\* ("form", "rejected", "invoked", "redirect", "page"), the trimmed query,
\* and the text and k it passed to recommend_topk when it invoked it.
Handled(route, outcome, query, text, topk, used_prefs_only) ==
    [route |-> route, outcome |-> outcome, query |-> query, text |-> text,
     topk |-> topk, used_prefs_only |-> used_prefs_only]

\* No request is being handled by a route.
NoRequest == Handled("", "", <<>>, <<>>, 0, FALSE)

\* What a global holds: the value and, for the table, the branch of
\* ensure_models_loaded that made it and what the build that wrote its
\* pickle returned (<<>> for a table that no build of the program pickled).
Obj(v, via, built) == <<[val |-> v, via |-> via, built |-> built]>>

Init ==
    /\ _vectorizer = <<>> /\ _df = <<>> /\ _matrix = <<>> /\ _text_col = <<>>
    /\ \E d \in StartDirs :
         vect_file = d.vect /\ data_file = d.data /\ csv_dir = d.csv
    /\ pc = [t \in Threads |-> "idle"]
    /\ loc = [t \in Threads |-> Blank]
    /\ restarted = FALSE
    /\ preference = <<>>
    /\ http = NoRequest

\* ------------------------------------------------ ensure_models_loaded
\* IsLoaded with a seeded fault: the text column name is tested too.
IsLoaded_with_text_col ==
    _vectorizer # <<>> /\ _df # <<>> /\ _matrix # <<>> /\ _text_col # <<>>

\* Line 74.
IsLoaded == _vectorizer # <<>> /\ _df # <<>> /\ _matrix # <<>>

\* Line 77.
CacheComplete == vect_file # <<>> /\ data_file # <<>>

Goto(t, p) == pc' = [pc EXCEPT ![t] = p]
Set(t, r) == loc' = [loc EXCEPT ![t] = r]

\* Where a call goes when its ensure_models_loaded() returns.
AfterEnsure(t) == IF loc[t].op = "recommend" THEN "q_vec" ELSE "done"

\* Where a call goes when it raises.
Raise(t, e) ==
    /\ Goto(t, "done")
    /\ Set(t, [loc[t] EXCEPT !.err = e])

\* A request thread calls ensure_models_loaded() or recommend_topk(q, k).
Call(t) ==
    /\ pc[t] = "idle"
    /\ \E op \in Ops(t) : Set(t, [Blank EXCEPT !.op = op])
    /\ Goto(t, "check")
    /\ UNCHANGED <<globals, disk, restarted, web>>

\* Lines 74-75.
Check(t) ==
    /\ pc[t] = "check"
    /\ IF IsLoaded
       THEN /\ Goto(t, AfterEnsure(t))
            /\ Set(t, [loc[t] EXCEPT !.ensured = "resident"])
       ELSE /\ Goto(t, "exists")
            /\ UNCHANGED loc
    /\ UNCHANGED <<globals, disk, restarted, web>>

\* Line 77.
Exists(t) ==
    /\ pc[t] = "exists"
    /\ IF CacheComplete
       THEN Goto(t, "load_vec")
       ELSE Goto(t, "build")
    /\ UNCHANGED <<globals, disk, loc, restarted, web>>

\* Line 78.  (No step of the program removes a file, so it is still there.)
LoadVec(t) ==
    /\ pc[t] = "load_vec"
    /\ _vectorizer' = Obj(vect_file[1].val, "", <<>>)
    /\ Goto(t, "load_df")
    /\ UNCHANGED loc
    /\ UNCHANGED <<_df, _matrix, _text_col, disk, restarted, web>>

\* Line 79.
LoadDf(t) ==
    /\ pc[t] = "load_df"
    /\ _df' = Obj(data_file[1].val, "cache", data_file[1].built)
    /\ Goto(t, "detect")
    /\ UNCHANGED loc
    /\ UNCHANGED <<_vectorizer, _matrix, _text_col, disk, restarted, web>>

\* Detect with a seeded fault: the cached table's first column is taken as
\* the text column.
Detect_first_column(t) ==
    /\ pc[t] = "detect"
    /\ _text_col' = Obj(_df[1].val.columns[1], "", <<>>)
    /\ Goto(t, "transform")
    /\ UNCHANGED <<_vectorizer, _df, _matrix, disk, loc, restarted, web>>

\* Line 81: reads the global _df.
Detect(t) ==
    /\ pc[t] = "detect"
    /\ LET c == _detect_text_column(_df[1].val)
       IN  IF c = KeyError
           THEN Raise(t, KeyError) /\ UNCHANGED _text_col
           ELSE /\ _text_col' = Obj(c, "", <<>>)
                /\ Goto(t, "transform")
                /\ UNCHANGED loc
    /\ UNCHANGED <<_vectorizer, _df, _matrix, disk, restarted, web>>

\* Line 82: reads the globals _vectorizer, _df and _text_col.
TransformCached(t) ==
    /\ pc[t] = "transform"
    /\ LET d == _df[1].val
           c == _text_col[1].val
       IN  IF c \notin Range(d.columns)
           THEN Raise(t, KeyError) /\ UNCHANGED _matrix
           ELSE /\ _matrix' = Obj(Transform(_vectorizer[1].val, TextsOf(d, c)), "", <<>>)
                /\ Goto(t, AfterEnsure(t))
                /\ Set(t, [loc[t] EXCEPT !.ensured = "cache"])
    /\ UNCHANGED <<_vectorizer, _df, _text_col, disk, restarted, web>>

\* ------------------------------------------------------ _build_from_csv
\* Lines 52-58, all on locals: the outcome is <<>> plus an error, or the
\* four values the function will return.
BuildOutcome(dir) ==
    LET path == _find_csv_path(DOMAIN dir)
    IN  IF path = FileNotFoundError THEN [err |-> FileNotFoundError, out |-> <<>>]
        ELSE
        LET raw == read_csv(dir[path])
            text_col == _detect_text_column(raw)
        IN  IF text_col = KeyError THEN [err |-> KeyError, out |-> <<>>]
            ELSE
            LET df == dropna(raw, text_col)
                texts == TextsOf(df, text_col)
                fitted == Fit(texts)
            IN  IF fitted = <<>> THEN [err |-> ValueError, out |-> <<>>]
                ELSE [err |-> "",
                      out |-> <<[df |-> df, vec |-> fitted[1],
                                 mat |-> Transform(fitted[1], texts),
                                 text_col |-> text_col]>>]

Build(t) ==
    /\ pc[t] = "build"
    /\ LET b == BuildOutcome(csv_dir)
       IN  IF b.err # ""
           THEN Raise(t, b.err)
           ELSE /\ Goto(t, "dump_vec")
                /\ Set(t, [loc[t] EXCEPT !.df = <<b.out[1].df>>, !.vec = <<b.out[1].vec>>,
                                         !.mat = <<b.out[1].mat>>, !.col = <<b.out[1].text_col>>])
    /\ UNCHANGED <<globals, disk, restarted, web>>

\* What the build that writes the cache returned (kept with the files).
BuiltBy(t) == <<[n |-> Len(loc[t].df[1].rows), col |-> loc[t].col[1]]>>

\* What line 63 pickles.
DumpedTable(t) == loc[t].df[1]

\* OnDumpError with a seeded fault: no except clause, the error leaves the call.
OnDumpError_propagates(t) ==
    /\ Goto(t, "done")
    /\ Set(t, [loc[t] EXCEPT !.dumped = "failed", !.err = "OSError"])

\* Where the except clause of lines 64-66 leaves the call.
OnDumpError(t) ==
    /\ Goto(t, "store_df")
    /\ Set(t, [loc[t] EXCEPT !.dumped = "failed"])

\* Line 62: joblib.dump(vec, VECT_PATH) succeeds, or raises into the except
\* clause, which skips line 63.
DumpVec(t) ==
    /\ pc[t] = "dump_vec"
    /\ \/ /\ vect_file' = <<[val |-> loc[t].vec[1], built |-> BuiltBy(t)]>>
          /\ Goto(t, "dump_df")
          /\ UNCHANGED loc
       \/ /\ OnDumpError(t)
          /\ UNCHANGED vect_file
    /\ UNCHANGED <<globals, data_file, csv_dir, restarted, web>>

\* Line 63: joblib.dump(df, DATA_PATH) succeeds or raises.
DumpDf(t) ==
    /\ pc[t] = "dump_df"
    /\ \/ /\ data_file' = <<[val |-> DumpedTable(t), built |-> BuiltBy(t)]>>
          /\ Goto(t, "store_df")
          /\ Set(t, [loc[t] EXCEPT !.dumped = "ok"])
       \/ /\ OnDumpError(t)
          /\ UNCHANGED data_file
    /\ UNCHANGED <<globals, vect_file, csv_dir, restarted, web>>

\* Line 84 stores the returned tuple into the four globals, one at a time
\* and in this order.
StoreDf(t) ==
    /\ pc[t] = "store_df"
    /\ _df' = Obj(loc[t].df[1], "csv", BuiltBy(t))
    /\ Goto(t, "store_vec")
    /\ UNCHANGED <<_vectorizer, _matrix, _text_col, disk, loc, restarted, web>>

StoreVec(t) ==
    /\ pc[t] = "store_vec"
    /\ _vectorizer' = Obj(loc[t].vec[1], "", <<>>)
    /\ Goto(t, "store_mat")
    /\ UNCHANGED <<_df, _matrix, _text_col, disk, loc, restarted, web>>

StoreMat(t) ==
    /\ pc[t] = "store_mat"
    /\ _matrix' = Obj(loc[t].mat[1], "", <<>>)
    /\ Goto(t, "store_col")
    /\ UNCHANGED <<_vectorizer, _df, _text_col, disk, loc, restarted, web>>

StoreCol(t) ==
    /\ pc[t] = "store_col"
    /\ _text_col' = Obj(loc[t].col[1], "", <<>>)
    /\ Goto(t, AfterEnsure(t))
    /\ Set(t, [loc[t] EXCEPT !.ensured = "csv", !.df = <<>>, !.vec = <<>>,
                             !.mat = <<>>, !.col = <<>>])
    /\ UNCHANGED <<_vectorizer, _df, _matrix, disk, restarted, web>>

\* ------------------------------------------------------- recommend_topk
IndexError == "IndexError"

\* Line 88: reads _vectorizer.  (The query is drawn here, where it is first
\* used.)
QVec(t) ==
    /\ pc[t] = "q_vec"
    /\ \E q \in Queries :
         Set(t, [loc[t] EXCEPT !.q = q, !.q_vec = TransformOne(_vectorizer[1].val, q)])
    /\ Goto(t, "sims")
    /\ UNCHANGED <<globals, disk, restarted, web>>

\* Lines 89-90: reads _matrix.  (k is drawn here, where it is first used.)
\* linear_kernel raises ValueError when the query and the matrix differ in width.
Sims(t) ==
    /\ pc[t] = "sims"
    /\ IF ~WidthsAgree(loc[t].q_vec, _matrix[1].val)
       THEN Raise(t, ValueError)
       ELSE \E k \in Ks :
              LET sims == linear_kernel(loc[t].q_vec, _matrix[1].val)
              IN  \E sorted \in Argsorts(sims) :
                    /\ Set(t, [loc[t] EXCEPT !.k = k, !.sims = sims,
                                             !.top = top_idx(sorted, k)])
                    /\ Goto(t, "rows")
    /\ UNCHANGED <<globals, disk, restarted, web>>

\* Lines 92-105: reads _df and _text_col.  _df.iloc raises IndexError for a
\* position past the last row.
Rows(t) ==
    /\ pc[t] = "rows"
    /\ LET d == _df[1].val
           c == IF _text_col = <<>> THEN <<>> ELSE <<_text_col[1].val>>
       IN  IF \E i \in DOMAIN loc[t].top : loc[t].top[i] > Len(d.rows)
           THEN /\ Goto(t, "done")
                /\ Set(t, [loc[t] EXCEPT !.err = IndexError, !.ndocs = Len(d.rows)])
           ELSE /\ Goto(t, "done")
                /\ Set(t, [loc[t] EXCEPT !.ndocs = Len(d.rows),
                             !.results = ResultItems(d, c, loc[t].sims, loc[t].top)])
    /\ UNCHANGED <<globals, disk, restarted, web>>

\* The call has returned or raised; the thread goes on to its next request.
Finish(t) ==
    /\ pc[t] = "done"
    /\ Goto(t, "idle")
    /\ Set(t, Blank)
    /\ UNCHANGED <<globals, disk, restarted, web>>

\* The process is stopped between requests and started again: the module
\* globals are None again, the directory is as it was left.
Restart ==
    /\ \A t \in Threads : pc[t] = "idle"
    /\ globals # <<<<>>, <<>>, <<>>, <<>>>>
    /\ _vectorizer' = <<>> /\ _df' = <<>> /\ _matrix' = <<>> /\ _text_col' = <<>>
    /\ restarted' = TRUE
    /\ UNCHANGED <<disk, pc, loc, web>>

Next ==
    \/ \E t \in Threads :
         \/ Call(t) \/ Check(t) \/ Exists(t)
         \/ LoadVec(t) \/ LoadDf(t) \/ Detect(t) \/ TransformCached(t)
         \/ Build(t) \/ DumpVec(t) \/ DumpDf(t)
         \/ StoreDf(t) \/ StoreVec(t) \/ StoreMat(t) \/ StoreCol(t)
         \/ QVec(t) \/ Sims(t) \/ Rows(t) \/ Finish(t)
    \/ Restart

Spec == Init /\ [][Next]_vars

\* ================================================================ routes
\* The caller layer of app/routes.py, up to the point where a handler calls
\* the recommender.  A string is a sequence of one-character strings; a form
\* or query-string field is <<>> when the request does not carry it and
\* <<s>> when it carries the string s.  The handlers share nothing but the
\* preference row, so one request is handled at a time.  What the
\* recommender does with the text it is passed is the subject of Spec.
MaxLen == 2
MaxTopics == 2

Chars == {"p", " ", ","}
Strings(n) == UNION {[1..m -> Chars] : m \in 0..n}

\* request.form.get("query"), request.args.get("query"), form "name".
FormValues == {<<>>} \cup {<<s>> : s \in Strings(MaxLen)}
\* request.form.get("topk"), request.args.get("topk").
TopkValues == {<<>>, <<<<>>>>, <<<<"p">>>>, <<<<"3">>>>, <<<<" ", "3">>>>}
\* request.form.getlist("topics"): whatever strings the request carries.
TopicLists == UNION {[1..n -> Strings(1)] : n \in 0..MaxTopics}

\* (value or ""): None and "" both give "".
OrEmpty(v) == IF v = <<>> THEN <<>> ELSE v[1]

\* str.strip(): leading and trailing white space removed.
strip(s) ==
    LET inked == {i \in DOMAIN s : s[i] # " "}
    IN  IF inked = {} THEN <<>>
        ELSE SubSeq(s, CHOOSE i \in inked : \A j \in inked : i <= j,
                       CHOOSE i \in inked : \A j \in inked : i >= j)

\* s.replace(",", " ")
replace_commas(s) == [i \in DOMAIN s |-> IF s[i] = "," THEN " " ELSE s[i]]

\* ",".join(items)
RECURSIVE join(_)
join(items) ==
    IF items = <<>> THEN <<>>
    ELSE IF Len(items) = 1 THEN items[1]
    ELSE items[1] \o <<",">> \o join(Tail(items))

Digit == ("0" :> 0) @@ ("1" :> 1) @@ ("2" :> 2) @@ ("3" :> 3) @@ ("4" :> 4)
         @@ ("5" :> 5) @@ ("6" :> 6) @@ ("7" :> 7) @@ ("8" :> 8) @@ ("9" :> 9)

RECURSIVE Decimal(_)
Decimal(s) == IF s = <<>> THEN 0 ELSE 10 * Decimal(SubSeq(s, 1, Len(s) - 1)) + Digit[s[Len(s)]]

\* Whether int(s) returns: s is a string of digits, white space around it
\* allowed (else int raises ValueError).
IsNumber(s) == strip(s) # <<>> /\ \A i \in DOMAIN strip(s) : strip(s)[i] \in DOMAIN Digit

\* int(s) for such a string.
int(s) == Decimal(strip(s))

\* Lines 137-140 and 210-213: the topk of the request, 5 when the field is
\* missing, empty or no number.
TopkOf(v) ==
    IF OrEmpty(v) = <<>> THEN 5
    ELSE IF ~IsNumber(v[1]) THEN 5
    ELSE int(v[1])

\* Lines 143-158: the text recommend_page queries with.
EffectiveQuery(query, pref_topics) ==
    IF pref_topics = <<>> THEN query
    ELSE IF query # <<>> THEN query \o <<" ">> \o replace_commas(pref_topics)
    ELSE replace_commas(pref_topics)

\* Lines 145-147: the stored topics of the user of the request.
PrefTopics(authenticated) ==
    IF authenticated /\ preference # <<>> THEN preference[1] ELSE <<>>

\* /recommend, lines 121-199.
recommend_page ==
    /\ http = NoRequest
    /\ \E method \in {"GET", "POST"}, form_query \in FormValues,
          form_topk \in TopkValues, authenticated \in BOOLEAN :
         LET query == strip(OrEmpty(form_query))
             topk == TopkOf(form_topk)
             pref_topics == PrefTopics(authenticated)
             effective_query == EffectiveQuery(query, pref_topics)
             used_prefs_only == pref_topics # <<>> /\ query = <<>>
         IN  http' =
               IF method = "GET"
               THEN Handled("recommend_page", "form", <<>>, <<>>, 5, FALSE)
               ELSE IF effective_query # <<>>
               THEN Handled("recommend_page", "invoked", query, effective_query,
                            topk, used_prefs_only)
               ELSE Handled("recommend_page", "rejected", query, <<>>, topk,
                            used_prefs_only)
    /\ UNCHANGED <<globals, disk, pc, loc, restarted, preference>>

\* /api/recommend, lines 203-239.
api_recommend ==
    /\ http = NoRequest
    /\ \E arg_query \in FormValues, arg_topk \in TopkValues :
         LET query == strip(OrEmpty(arg_query))
             topk == TopkOf(arg_topk)
         IN  http' =
               IF query = <<>>
               THEN Handled("api_recommend", "rejected", query, <<>>, topk, FALSE)
               ELSE Handled("api_recommend", "invoked", query, query, topk, FALSE)
    /\ UNCHANGED <<globals, disk, pc, loc, restarted, preference>>

\* /profile, lines 306-361: the row is made when the user has none; a POST
\* with a name stores the request's topics joined by commas.
profile ==
    /\ http = NoRequest
    /\ \E method \in {"GET", "POST"}, form_name \in {<<>>, <<<<"p">>>>},
          selected_topics \in TopicLists :
         LET row == IF preference = <<>> THEN <<<<>>>> ELSE preference
             name == strip(OrEmpty(form_name))
         IN  IF method = "POST" /\ name # <<>>
             THEN /\ preference' = <<join(selected_topics)>>
                  /\ http' = Handled("profile", "redirect", <<>>, <<>>, 0, FALSE)
             ELSE /\ preference' = row
                  /\ http' = Handled("profile",
                                     IF method = "POST" THEN "redirect" ELSE "page",
                                     <<>>, <<>>, 0, FALSE)
    /\ UNCHANGED <<globals, disk, pc, loc, restarted>>

\* The response is sent; the next request may come.
Respond ==
    /\ http # NoRequest
    /\ http' = NoRequest
    /\ UNCHANGED <<globals, disk, pc, loc, restarted, preference>>

RouteNext == recommend_page \/ api_recommend \/ profile \/ Respond

\* The routes are followed from a process that has loaded nothing, in an
\* empty data directory.
RouteInit == Init /\ disk = <<<<>>, <<>>, <<>>>>

RouteSpec == RouteInit /\ [][RouteNext]_vars


\* ================================================================ claims
\* A recommend_topk call of thread t has ended (returned or raised) after
\* its ensure_models_loaded() returned.
Answered(t) == pc[t] = "done" /\ loc[t].op = "recommend" /\ loc[t].ensured # ""

Distinct(seq) == \A i, j \in DOMAIN seq : i # j => seq[i] # seq[j]
DocsOf(results) == [i \in DOMAIN results |-> results[i].doc]

\* The positions of line 84 and the steps that assign a module global.
StorePcs == {"store_df", "store_vec", "store_mat", "store_col"}
Writes(t) ==
    \/ pc[t] \in StorePcs \cup {"load_vec", "load_df"} /\ pc'[t] # pc[t]
    \/ pc[t] = "detect" /\ pc'[t] = "transform"
    \/ pc[t] = "transform" /\ loc'[t].ensured = "cache"

\* C1: for a resident corpus of N >= 1 documents and k > 0, recommend_topk
\* raises nothing and returns exactly min(k, N) records, each referring to
\* a different document (so all N of them when k >= N).
C1_TopKCount ==
    \A t \in Threads :
      (Answered(t) /\ loc[t].k > 0) =>
        /\ loc[t].err = ""
        /\ Len(loc[t].results) = Min(loc[t].k, loc[t].ndocs)
        /\ Distinct(DocsOf(loc[t].results))

\* C2: for k <= 0 recommend_topk against a loaded index returns no record.
C2_NonPositiveKEmpty ==
    \A t \in Threads :
      (Answered(t) /\ loc[t].err = "" /\ loc[t].k <= 0) => loc[t].results = <<>>

\* C3: in every returned list the ranks are 1, 2, ..., m in list order, each
\* score is the (rounded) similarity computed for the row the record refers
\* to, and the scores never increase from one rank to the next.
C3_RankedDescending ==
    \A t \in Threads :
      (Answered(t) /\ loc[t].err = "") =>
        LET r == loc[t].results
        IN  \A i \in DOMAIN r :
              /\ r[i].rank = i
              /\ r[i].score = Round6(loc[t].sims[r[i].doc])
              /\ i < Len(r) => r[i].score >= r[i + 1].score

\* C3 witness: a returned list whose first two scores differ.
C3_Witness ==
    \E t \in Threads :
      /\ Answered(t) /\ loc[t].err = ""
      /\ Len(loc[t].results) >= 2
      /\ loc[t].results[1].score > loc[t].results[2].score

\* C4: once an ensure_models_loaded() has returned successfully to a caller
\* that is still in its call, no step of any thread assigns a module global.
C4_NoWriteAfterReturn ==
    [][(\E t \in Threads : loc[t].ensured # "") => \A u \in Threads : ~Writes(u)]_vars

\* C5: whenever the readiness check passes, the resident matrix has one row
\* per document of the resident table and, once the text column is stored,
\* is the transform of that table's texts by the resident vectorizer.
C5_RowAlignment ==
    IsLoaded =>
      /\ Len(_matrix[1].val) = Len(_df[1].val.rows)
      /\ _text_col # <<>> =>
           /\ _text_col[1].val \in Range(_df[1].val.columns)
           /\ _matrix[1].val = Transform(_vectorizer[1].val,
                                         TextsOf(_df[1].val, _text_col[1].val))

\* The readiness of the claims: vectorizer, table and matrix all resident.
Resident == _vectorizer # <<>> /\ _df # <<>> /\ _matrix # <<>>

\* C6: an ensure_models_loaded() that finds the index resident returns at
\* once: its one step is the return, and it changes neither a module global
\* nor a file (it reaches no position that tests, reads or writes one).
C6_Idempotent ==
    [][\A t \in Threads :
         (pc[t] = "check" /\ Resident /\ pc'[t] # "check") =>
           /\ pc'[t] = AfterEnsure(t)
           /\ loc'[t].ensured = "resident"
           /\ UNCHANGED <<globals, disk>>]_vars

\* C6 witness: an ensure_models_loaded() call has returned at line 75.
C6_Witness ==
    \E t \in Threads :
      pc[t] = "done" /\ loc[t].op = "ensure" /\ loc[t].ensured = "resident" /\ Resident

\* C7: a build whose cache write failed (the first, or the second after the
\* first succeeded) is never ended by an error: it goes on to line 84 with
\* the four values the build computed, and its ensure_models_loaded()
\* returns with the index resident.
C7_DumpFailureNotFatal ==
    \A t \in Threads :
      loc[t].dumped = "failed" =>
        /\ pc[t] \in StorePcs \cup {"q_vec", "sims", "rows", "done"}
        /\ pc[t] \in StorePcs =>
             LET b == BuildOutcome(csv_dir).out[1]
             IN  /\ loc[t].df = <<b.df>> /\ loc[t].vec = <<b.vec>>
                 /\ loc[t].mat = <<b.mat>> /\ loc[t].col = <<b.text_col>>
        /\ pc[t] \notin StorePcs => loc[t].ensured = "csv" /\ Resident

\* C7 witness: the vectorizer was written, the table was not, and the call
\* has returned with the index resident.
C7_Witness ==
    \E t \in Threads :
      /\ pc[t] = "done" /\ loc[t].dumped = "failed" /\ loc[t].ensured = "csv"
      /\ vect_file # <<>> /\ vect_file[1].built # <<>>
      /\ data_file = <<>>
      /\ Resident

\* The CSV that _find_csv_path picks has a text column and no row with a
\* value in it.
AllTextNull ==
    /\ _find_csv_path(DOMAIN csv_dir) # FileNotFoundError
    /\ LET raw == read_csv(csv_dir[_find_csv_path(DOMAIN csv_dir)])
           c == _detect_text_column(raw)
       IN  /\ c # KeyError
           /\ raw.rows # <<>>
           /\ \A i \in DOMAIN raw.rows : raw.rows[i][c].kind = "nan"

\* C8: when every row of the source has a null text, the build ends the call
\* with the empty-corpus error (fit's ValueError) and assigns no global; and
\* no resident table is ever empty.
C8_EmptyCorpusFails ==
    /\ [](_df # <<>> => _df[1].val.rows # <<>>)
    /\ [][\A t \in Threads :
            (pc[t] = "build" /\ AllTextNull /\ pc'[t] # "build") =>
              /\ pc'[t] = "done"
              /\ loc'[t].err = ValueError /\ loc'[t].ensured = ""
              /\ UNCHANGED globals]_vars

\* C8 witness: a call on such a source has ended with the error and the
\* globals are all unset.
C8_Witness ==
    \E t \in Threads :
      /\ AllTextNull /\ pc[t] = "done" /\ loc[t].err = ValueError
      /\ globals = <<<<>>, <<>>, <<>>, <<>>>>

\* C9: when the resident table was read from a pickle that a build of the
\* program wrote, and the text column name is stored, the table has as many
\* documents as that build returned and the column is the one it selected.
C9_RoundTrip ==
    (_df # <<>> /\ _text_col # <<>> /\ _df[1].via = "cache" /\ _df[1].built # <<>>) =>
      /\ Len(_df[1].val.rows) = _df[1].built[1].n
      /\ _text_col[1].val = _df[1].built[1].col

\* C9 witness: after a restart a call has loaded the pickles a build wrote.
C9_Witness ==
    \E t \in Threads :
      /\ restarted /\ pc[t] = "done" /\ loc[t].ensured = "cache"
      /\ _df[1].via = "cache" /\ _df[1].built # <<>> /\ _text_col # <<>>
      /\ vect_file[1].built # <<>>

CachePcs == {"load_vec", "load_df", "detect", "transform"}
BuildPcs == {"build", "dump_vec", "dump_df"} \cup StorePcs

\* C10: a cold call takes the cache branch exactly when both pickles exist
\* and the build branch otherwise; the cache branch never enters the build;
\* and the call ends with FileNotFoundError exactly when it took the build
\* branch and the directory holds no CSV file.
C10_SourceSelection ==
    [][\A t \in Threads :
         /\ (pc[t] = "exists" /\ pc'[t] # "exists") =>
              /\ pc'[t] = "load_vec" <=> (vect_file # <<>> /\ data_file # <<>>)
              /\ pc'[t] = "build" <=> (vect_file = <<>> \/ data_file = <<>>)
         /\ pc[t] \in CachePcs => pc'[t] \notin BuildPcs
         /\ (pc[t] = "build" /\ pc'[t] # "build") =>
              (loc'[t].err = FileNotFoundError <=> DOMAIN csv_dir = {})
         /\ (loc'[t].err = FileNotFoundError /\ loc[t].err # FileNotFoundError) =>
              pc[t] = "build"]_vars

\* C10 witness: with one pickle present and no CSV a call has ended with
\* FileNotFoundError.
C10_Witness ==
    \E t \in Threads :
      /\ pc[t] = "done" /\ loc[t].err = FileNotFoundError
      /\ vect_file # <<>> /\ data_file = <<>> /\ DOMAIN csv_dir = {}

\* The text column of a resident table: the column _detect_text_column
\* selects in it (<<>> when it has none).
TextColumnOf(df) ==
    IF _detect_text_column(df) = KeyError THEN <<>> ELSE <<_detect_text_column(df)>>

\* C11: the readiness check never passes while the text column name is
\* unset, and every record a recommend_topk call returns carries as its text
\* the full text-column value of the row of the resident table it was read
\* from, in every interleaving.
C11_TextIsFull ==
    [][\A t \in Threads :
         /\ (pc[t] = "check" /\ pc'[t] \notin {"check", "exists"}) => _text_col # <<>>
         /\ (pc[t] = "rows" /\ pc'[t] = "done" /\ loc'[t].err = "") =>
              \A i \in DOMAIN loc'[t].results :
                loc'[t].results[i].text =
                  RowText(_df[1].val.rows[loc'[t].results[i].doc],
                          TextColumnOf(_df[1].val))]_vars

\* No call is in progress.
Quiescent == \A t \in Threads : pc[t] \in {"idle", "done"}

\* The four module globals are all None.
Uninitialized == globals = <<<<>>, <<>>, <<>>, <<>>>>

\* C12: a call whose ensure_models_loaded() raised leaves the module globals
\* as they were; so, with no call in progress, the index is never partially
\* populated: the four globals are all None or all set.
C12_FailedEnsureAtomic ==
    (Quiescent /\ \E t \in Threads : pc[t] = "done" /\ loc[t].err # "" /\ loc[t].ensured = "")
      => (Uninitialized \/ (Resident /\ _text_col # <<>>))

\* The text has a character that is not white space.
HasInk(s) == \E i \in DOMAIN s : s[i] # " "

\* C13: whenever the handler of /recommend or of /api/recommend invokes
\* recommend_topk, the text it passes has at least one character that is not
\* white space; a request without one is rejected instead.
C13_NeverBlankQuery ==
    http.outcome = "invoked" => HasInk(http.text)
====
